---- MODULE Spec2Model ----
(***************************************************************************)
(* Model of src/main.py: the Cribl Control Plane SDK sandbox entry point.  *)
(*                                                                         *)
(* One run of the script is a state machine over the process environment,  *)
(* the locals of cribl_cloud_example, the console output and the exit      *)
(* code.  Python strings are sequences of one-character strings, so that   *)
(* str.startswith, str.join and f-string concatenation are computed and    *)
(* not assumed.  An optional value is <<>> (None / unbound) or <<v>>.      *)
(* Console styling and the emoji glyphs of the messages are left out of    *)
(* the message texts.                                                      *)
(***************************************************************************)
EXTENDS Integers, Sequences, FiniteSets, TLC

\* ------------------------------------------------------------------ bounds
\* longest list of branches a probe response carries
MaxItems == 2

\* ------------------------------------------------------- optional values
None == <<>>
Some(x) == <<x>>

\* ---------------------------------------------------------- string data
S_your == <<"y","o","u","r","-">>
S_your_org_id == <<"y","o","u","r","-","o","r","g","-","i","d">>
S_your_client_id == <<"y","o","u","r","-","c","l","i","e","n","t","-","i","d">>
S_your_client_secret == <<"y","o","u","r","-","c","l","i","e","n","t","-","s","e","c","r","e","t">>
S_main == <<"m","a","i","n">>
S_https == <<"h","t","t","p","s",":","/","/">>
S_dash == <<"-">>
S_cloud_suffix == <<".","c","r","i","b","l",".","c","l","o","u","d","/","a","p","i","/","v","1">>
S_token_url == <<"h","t","t","p","s",":","/","/","l","o","g","i","n",".","c","r","i","b","l",".","c","l","o","u","d","/","o","a","u","t","h","/","t","o","k","e","n">>
S_audience == <<"h","t","t","p","s",":","/","/","a","p","i",".","c","r","i","b","l",".","c","l","o","u","d">>
S_server_url == <<"S","e","r","v","e","r"," ","U","R","L",":"," ">>
S_branches == <<"C","l","i","e","n","t"," ","w","o","r","k","s","!"," ","Y","o","u","r"," ","l","i","s","t"," ","o","f"," ","b","r","a","n","c","h","e","s",":","\n","\t">>
S_went_wrong == <<"S","o","m","e","t","h","i","n","g"," ","w","e","n","t"," ","w","r","o","n","g",":"," ">>
S_import_failed == <<"F","a","i","l","e","d"," ","t","o"," ","i","m","p","o","r","t"," ","C","r","i","b","l"," ","S","D","K",":"," ">>
S_error == <<"E","r","r","o","r",":"," ">>
S_codespaces == <<"G","i","t","H","u","b"," ","C","o","d","e","s","p","a","c","e","s">>
S_devcontainer == <<"V","S"," ","C","o","d","e"," ","D","e","v"," ","C","o","n","t","a","i","n","e","r">>
S_local == <<"L","o","c","a","l"," ","M","a","c","h","i","n","e">>
S_sep == <<"\n","\t">>

\* sample values of the environment, of the SDK's answers and of error texts
S_acme == <<"a","c","m","e">>
S_dev == <<"d","e","v">>
S_you == <<"y","o","u">>
S_true == <<"t","r","u","e">>
S_timeout == <<"t","i","m","e","o","u","t">>
S_boom == <<"b","o","o","m">>
S_no_module == <<"N","o"," ","m","o","d","u","l","e"," ","n","a","m","e","d"," ","'","c","r","i","b","l","_","c","o","n","t","r","o","l","_","p","l","a","n","e","'">>
S_no_cwd == <<"N","o"," ","s","u","c","h"," ","f","i","l","e"," ","o","r"," ","d","i","r","e","c","t","o","r","y">>

\* ------------------------------------------------------------- the state
VARIABLES
    env,               \* os.environ: a function from the names that are set
    SDK_AVAILABLE,     \* module global, lines 18-24
    SDK_IMPORT_ERROR,  \* module global, set only when the import failed
    cwdExists,         \* whether Path.cwd() can be resolved
    pc,                \* position of the run
    ORG_ID,            \* locals of cribl_cloud_example (None while unbound)
    CLIENT_ID,
    CLIENT_SECRET,
    WORKSPACE_NAME,
    base_url,
    client,            \* the CriblControlPlane handle (None while unbound)
    response,          \* result of list_async (None while unbound)
    error,             \* exception caught at line 116 (None while unbound)
    uncaught,          \* exception that left asyncio.run(main())
    out,               \* what was printed, in order
    calls,             \* number of network calls issued so far
    inflight,          \* number of network calls awaiting their result
    exitCode           \* process exit code (None while running)

vars == <<env, SDK_AVAILABLE, SDK_IMPORT_ERROR, cwdExists, pc, ORG_ID, CLIENT_ID,
          CLIENT_SECRET, WORKSPACE_NAME, base_url, client, response, error,
          uncaught, out, calls, inflight, exitCode>>

locals == <<ORG_ID, CLIENT_ID, CLIENT_SECRET, WORKSPACE_NAME, base_url>>
globals == <<env, SDK_AVAILABLE, SDK_IMPORT_ERROR, cwdExists>>

\* --------------------------------------------------------- pure helpers
\* startswith with receiver and argument swapped: prefix.startswith(s)
startswith_swapped(s, prefix) ==
    /\ Len(prefix) >= Len(s)
    /\ SubSeq(prefix, 1, Len(s)) = s

\* str.startswith
startswith(s, prefix) ==
    /\ Len(s) >= Len(prefix)
    /\ SubSeq(s, 1, Len(prefix)) = prefix

\* os.getenv(name, default); os.getenv(name) is getenv(e, name, None) on options
getenv(e, name, default) ==
    IF name \in DOMAIN e THEN e[name] ELSE default

\* truthiness of os.getenv(name): set and not the empty string
getenv_truthy(e, name) ==
    name \in DOMAIN e /\ e[name] # <<>>

\* join that emits the parts last to first
RECURSIVE join_reversed(_, _)
join_reversed(sep, parts) ==
    IF Len(parts) = 0 THEN <<>>
    ELSE IF Len(parts) = 1 THEN parts[1]
    ELSE parts[Len(parts)] \o sep \o join_reversed(sep, SubSeq(parts, 1, Len(parts) - 1))

\* sep.join(parts)
RECURSIVE join(_, _)
join(sep, parts) ==
    IF Len(parts) = 0 THEN <<>>
    ELSE IF Len(parts) = 1 THEN parts[1]
    ELSE parts[1] \o sep \o join(sep, Tail(parts))

\* [branch.id for branch in response.items]
branch_ids(items) == [i \in 1..Len(items) |-> items[i].id]

\* getattr(error, "status_code", None)
getattr_status_code(e) ==
    IF "status_code" \in DOMAIN e THEN Some(e.status_code) ELSE None

\* one console line: a tag naming the print statement and the interpolated text
Msg(tag, text) == [tag |-> tag, text |-> text]

Tags(log) == {log[i].tag : i \in 1..Len(log)}
Count(log, tag) == Cardinality({i \in 1..Len(log) : log[i].tag = tag})

\* line 78: f"https://{WORKSPACE_NAME}-{ORG_ID}.cribl.cloud/api/v1"
derive_base_url(workspace, org) ==
    S_https \o workspace \o S_dash \o org \o S_cloud_suffix

\* line 82 with all() in place of any()
using_placeholders_all(vals) ==
    \A i \in 1..Len(vals) : startswith(vals[i], S_your)

\* line 82: any(val.startswith("your-") for val in [...])
using_placeholders(vals) ==
    \E i \in 1..Len(vals) : startswith(vals[i], S_your)

\* lines 44-49: the "Environment" row of the table
environment_row(e) ==
    IF getenv_truthy(e, "CODESPACES") THEN S_codespaces
    ELSE IF getenv_truthy(e, "REMOTE_CONTAINERS") THEN S_devcontainer
    ELSE S_local

\* lines 110-114: the line printed for a response
success_report(resp) ==
    IF resp.items # <<>>
    THEN Msg("branches", S_branches \o join(S_sep, branch_ids(resp.items)))
    ELSE Msg("no_branches", <<>>)

\* lines 117-123 with a truthiness test in place of "== 401"
error_report_truthy(e) ==
    LET status_code == getattr_status_code(e) IN
    IF status_code # None THEN Msg("auth_failed", <<>>)
    ELSE IF status_code = Some(429) THEN Msg("rate_limit", <<>>)
    ELSE Msg("went_wrong", S_went_wrong \o e.message)

\* lines 117-123: the line printed for a caught exception
error_report(e) ==
    LET status_code == getattr_status_code(e) IN
    IF status_code = Some(401) THEN Msg("auth_failed", <<>>)
    ELSE IF status_code = Some(429) THEN Msg("rate_limit", <<>>)
    ELSE Msg("went_wrong", S_went_wrong \o e.message)

\* ------------------------------------------------- inputs of the model
\* values an OAuth2 variable may be set to, besides being unset
CredValues(placeholder) ==
    {<<>>, S_acme, S_you, S_your, placeholder}

Opt(S) == {None} \cup {Some(v) : v \in S}

\* os.environ built from the optional value of each name
MkEnv(r) == [k \in {n \in DOMAIN r : r[n] # None} |-> r[k][1]]

StatusCodes == {401, 429, 500}
ErrorTexts == {S_timeout, S_boom}

\* exceptions the SDK raises: with or without a status_code attribute
Errors ==
    [message : ErrorTexts] \cup [message : ErrorTexts, status_code : StatusCodes]

BranchNames == {S_main, S_dev, <<>>}
Branches == [id : BranchNames]

RECURSIVE SeqsUpTo(_, _)
SeqsUpTo(S, n) ==
    IF n = 0 THEN {<<>>}
    ELSE LET shorter == SeqsUpTo(S, n - 1) IN
         shorter \cup {Append(s, x) : s \in {t \in shorter : Len(t) = n - 1}, x \in S}

\* responses of versions.branches.list_async(); items None and [] are both
\* falsy at line 110 and are both the empty sequence here
Responses == [items : SeqsUpTo(Branches, MaxItems)]

\* ------------------------------------------------------------------ Init
Init ==
    /\ \E org \in Opt(CredValues(S_your_org_id)),
          cid \in Opt(CredValues(S_your_client_id)),
          sec \in Opt(CredValues(S_your_client_secret)),
          ws \in Opt({S_dev}),
          cs \in Opt({<<>>, S_true}),
          rc \in Opt({S_true}) :
            env = MkEnv([CRIBL_ORG_ID |-> org, CRIBL_CLIENT_ID |-> cid,
                         CRIBL_CLIENT_SECRET |-> sec, CRIBL_WORKSPACE_NAME |-> ws,
                         CODESPACES |-> cs, REMOTE_CONTAINERS |-> rc])
    /\ SDK_AVAILABLE \in BOOLEAN
    /\ SDK_IMPORT_ERROR = IF SDK_AVAILABLE THEN None ELSE Some(S_no_module)
    /\ cwdExists \in BOOLEAN
    /\ pc = "main"
    /\ ORG_ID = None /\ CLIENT_ID = None /\ CLIENT_SECRET = None
    /\ WORKSPACE_NAME = None /\ base_url = None
    /\ client = None /\ response = None /\ error = None /\ uncaught = None
    /\ out = <<>>
    /\ calls = 0 /\ inflight = 0
    /\ exitCode = None

\* --------------------------------------------------------------- actions
\* main, lines 127-135: show_environment_info() and the banner.  Path.cwd()
\* at line 40 raises when the working directory is gone; main has no handler,
\* so the exception leaves asyncio.run.
main_begin ==
    /\ pc = "main"
    /\ IF cwdExists
       THEN /\ out' = out \o <<Msg("welcome", <<>>),
                               Msg("environment", environment_row(env)),
                               Msg("testing_banner", <<>>)>>
            /\ pc' = "example"
            /\ UNCHANGED uncaught
       ELSE /\ out' = Append(out, Msg("welcome", <<>>))
            /\ uncaught' = Some([message |-> S_no_cwd])
            /\ pc' = "toplevel_except"
    /\ UNCHANGED <<globals, locals, client, response, error, calls, inflight, exitCode>>

\* lines 63-70 without the return at line 68
check_sdk_no_return ==
    /\ pc = "example"
    /\ IF ~SDK_AVAILABLE
       THEN out' = out \o <<Msg("import_failed", S_import_failed \o SDK_IMPORT_ERROR[1]),
                            Msg("install_hint", <<>>)>>
       ELSE out' = Append(out, Msg("sdk_imported", <<>>))
    /\ pc' = "resolve"
    /\ UNCHANGED <<globals, locals, client, response, error, uncaught, calls, inflight, exitCode>>

\* cribl_cloud_example, lines 63-70
check_sdk ==
    /\ pc = "example"
    /\ IF ~SDK_AVAILABLE
       THEN /\ out' = out \o <<Msg("import_failed", S_import_failed \o SDK_IMPORT_ERROR[1]),
                               Msg("install_hint", <<>>)>>
            /\ pc' = "main_tail"
       ELSE /\ out' = Append(out, Msg("sdk_imported", <<>>))
            /\ pc' = "resolve"
    /\ UNCHANGED <<globals, locals, client, response, error, uncaught, calls, inflight, exitCode>>

\* cribl_cloud_example, lines 73-79
resolve_config ==
    /\ pc = "resolve"
    /\ ORG_ID' = Some(getenv(env, "CRIBL_ORG_ID", S_your_org_id))
    /\ CLIENT_ID' = Some(getenv(env, "CRIBL_CLIENT_ID", S_your_client_id))
    /\ CLIENT_SECRET' = Some(getenv(env, "CRIBL_CLIENT_SECRET", S_your_client_secret))
    /\ WORKSPACE_NAME' = Some(getenv(env, "CRIBL_WORKSPACE_NAME", S_main))
    /\ base_url' = Some(derive_base_url(WORKSPACE_NAME'[1], ORG_ID'[1]))
    /\ out' = Append(out, Msg("server_url", S_server_url \o base_url'[1]))
    /\ pc' = "readiness"
    /\ UNCHANGED <<globals, client, response, error, uncaught, calls, inflight, exitCode>>

\* cribl_cloud_example, lines 82-89
readiness_check ==
    /\ pc = "readiness"
    /\ IF using_placeholders(<<ORG_ID[1], CLIENT_ID[1], CLIENT_SECRET[1]>>)
       THEN /\ out' = Append(out, Msg("placeholder_warning", <<>>))
            /\ pc' = "main_tail"
       ELSE /\ out' = out
            /\ pc' = "construct"
    /\ UNCHANGED <<globals, locals, client, response, error, uncaught, calls, inflight, exitCode>>

\* cribl_cloud_example, lines 92-104, the constructors return
construct_client ==
    /\ pc = "construct"
    /\ client' = Some([server_url |-> base_url[1],
                       security |-> [client_id |-> CLIENT_ID[1],
                                     client_secret |-> CLIENT_SECRET[1],
                                     token_url |-> S_token_url,
                                     audience |-> S_audience]])
    /\ out' = out \o <<Msg("setting_up", <<>>), Msg("client_created", <<>>)>>
    /\ pc' = "probe"
    /\ UNCHANGED <<globals, locals, response, error, uncaught, calls, inflight, exitCode>>

\* cribl_cloud_example, lines 92-103, a constructor raises: control goes to
\* the handler at line 116
construct_raises ==
    /\ pc = "construct"
    /\ \E e \in Errors : error' = Some(e)
    /\ out' = Append(out, Msg("setting_up", <<>>))
    /\ pc' = "except"
    /\ UNCHANGED <<globals, locals, client, response, uncaught, calls, inflight, exitCode>>

\* cribl_cloud_example, lines 107-108: the call is issued and the coroutine
\* suspends at the await
issue_probe ==
    /\ pc = "probe"
    /\ out' = Append(out, Msg("testing_connection", <<>>))
    /\ calls' = calls + 1
    /\ inflight' = inflight + 1
    /\ pc' = "awaiting"
    /\ UNCHANGED <<globals, locals, client, response, error, uncaught, exitCode>>

\* line 108: the awaited call returns a response
probe_returns ==
    /\ pc = "awaiting"
    /\ \E r \in Responses : response' = Some(r)
    /\ inflight' = inflight - 1
    /\ pc' = "report"
    /\ UNCHANGED <<globals, locals, client, error, uncaught, out, calls, exitCode>>

\* line 108 raising with no handler around it: the exception leaves main
probe_raises_uncaught ==
    /\ pc = "awaiting"
    /\ \E e \in Errors : uncaught' = Some(e) /\ error' = Some(e)
    /\ inflight' = inflight - 1
    /\ pc' = "toplevel_except"
    /\ UNCHANGED <<globals, locals, client, response, out, calls, exitCode>>

\* line 108: the awaited call raises; line 116 catches it
probe_raises ==
    /\ pc = "awaiting"
    /\ \E e \in Errors : error' = Some(e)
    /\ inflight' = inflight - 1
    /\ pc' = "except"
    /\ UNCHANGED <<globals, locals, client, response, uncaught, out, calls, exitCode>>

\* cribl_cloud_example, lines 110-114
report_success ==
    /\ pc = "report"
    /\ out' = Append(out, success_report(response[1]))
    /\ pc' = "main_tail"
    /\ UNCHANGED <<globals, locals, client, response, error, uncaught, calls, inflight, exitCode>>

\* lines 116-123 with the call tried again after a rate-limit answer
handle_error_retry ==
    /\ pc = "except"
    /\ out' = Append(out, error_report(error[1]))
    /\ pc' = IF getattr_status_code(error[1]) = Some(429) THEN "probe" ELSE "main_tail"
    /\ UNCHANGED <<globals, locals, client, response, error, uncaught, calls, inflight, exitCode>>

\* lines 116-123 with construction tried again when no client was built
handle_error_reconstruct ==
    /\ pc = "except"
    /\ out' = Append(out, error_report(error[1]))
    /\ pc' = IF client = None THEN "construct" ELSE "main_tail"
    /\ UNCHANGED <<globals, locals, client, response, error, uncaught, calls, inflight, exitCode>>

\* cribl_cloud_example, lines 116-123
handle_error ==
    /\ pc = "except"
    /\ out' = Append(out, error_report(error[1]))
    /\ pc' = "main_tail"
    /\ UNCHANGED <<globals, locals, client, response, error, uncaught, calls, inflight, exitCode>>

\* main, lines 139-145
main_end ==
    /\ pc = "main_tail"
    /\ out' = Append(out, Msg("next_steps", <<>>))
    /\ pc' = "returned"
    /\ UNCHANGED <<globals, locals, client, response, error, uncaught, calls, inflight, exitCode>>

\* line 149 returns and the script ends: the interpreter exits with 0
exit_normally ==
    /\ pc = "returned"
    /\ exitCode' = Some(0)
    /\ pc' = "exited"
    /\ UNCHANGED <<globals, locals, client, response, error, uncaught, out, calls, inflight>>

\* lines 150-152 with sys.exit(1)
keyboard_interrupt_exit1 ==
    /\ pc \in {"main", "example", "resolve", "readiness", "construct", "probe",
               "awaiting", "report", "except", "main_tail"}
    /\ out' = Append(out, Msg("goodbye", <<>>))
    /\ inflight' = 0
    /\ exitCode' = Some(1)
    /\ pc' = "exited"
    /\ UNCHANGED <<globals, locals, client, response, error, uncaught, calls>>

\* lines 150-152: Ctrl-C while asyncio.run(main()) is running.  No handler
\* inside main catches KeyboardInterrupt (line 116 catches Exception only);
\* a call in flight is cancelled.
keyboard_interrupt ==
    /\ pc \in {"main", "example", "resolve", "readiness", "construct", "probe",
               "awaiting", "report", "except", "main_tail"}
    /\ out' = Append(out, Msg("goodbye", <<>>))
    /\ inflight' = 0
    /\ exitCode' = Some(0)
    /\ pc' = "exited"
    /\ UNCHANGED <<globals, locals, client, response, error, uncaught, calls>>

\* lines 153-156
toplevel_except ==
    /\ pc = "toplevel_except"
    /\ out' = Append(out, Msg("toplevel_error", S_error \o uncaught[1].message))
    /\ exitCode' = Some(1)
    /\ pc' = "exited"
    /\ UNCHANGED <<globals, locals, client, response, error, uncaught, calls, inflight>>

Next ==
    \/ main_begin
    \/ check_sdk
    \/ resolve_config
    \/ readiness_check
    \/ construct_client
    \/ construct_raises
    \/ issue_probe
    \/ probe_returns
    \/ probe_raises
    \/ report_success
    \/ handle_error
    \/ main_end
    \/ exit_normally
    \/ keyboard_interrupt
    \/ toplevel_except

Spec == Init /\ [][Next]_vars

\* ============================================================ properties
\* cribl_cloud_example has returned to main (line 137 is behind)
ExampleReturned ==
    pc \in {"main_tail", "returned"} \/ "next_steps" \in Tags(out)

Interrupted == "goodbye" \in Tags(out)

\* the value os.getenv yields for a name is its placeholder default
HoldsSentinel(name, placeholder) ==
    name \notin DOMAIN env \/ env[name] = placeholder

AnySentinel ==
    \/ HoldsSentinel("CRIBL_ORG_ID", S_your_org_id)
    \/ HoldsSentinel("CRIBL_CLIENT_ID", S_your_client_id)
    \/ HoldsSentinel("CRIBL_CLIENT_SECRET", S_your_client_secret)

AllSentinel ==
    /\ HoldsSentinel("CRIBL_ORG_ID", S_your_org_id)
    /\ HoldsSentinel("CRIBL_CLIENT_ID", S_your_client_id)
    /\ HoldsSentinel("CRIBL_CLIENT_SECRET", S_your_client_secret)

ErrorTags == {"auth_failed", "rate_limit", "went_wrong"}
SuccessTags == {"branches", "no_branches"}
OutcomeTags == {"import_failed", "placeholder_warning"} \cup SuccessTags \cup ErrorTags

\* the lines of the log whose tag is in T, in order
Lines(log, T) == SelectSeq(log, LAMBDA m : m.tag \in T)

\* C1: whenever at least one of CRIBL_ORG_ID, CRIBL_CLIENT_ID and
\* CRIBL_CLIENT_SECRET holds its placeholder sentinel, the run never reaches
\* client construction, no client exists, the number of network calls is 0,
\* and once cribl_cloud_example has returned with the SDK imported the
\* placeholder warning was printed exactly once (readiness was not-ready).
C1_NotReadyNoCall ==
    AnySentinel =>
        /\ client = None
        /\ calls = 0
        /\ inflight = 0
        /\ pc \notin {"construct", "probe", "awaiting", "report", "except"}
        /\ "setting_up" \notin Tags(out)
        /\ (SDK_AVAILABLE /\ ExampleReturned) => Count(out, "placeholder_warning") = 1

C1_Witness ==
    /\ AnySentinel
    /\ ~AllSentinel
    /\ pc = "returned"
    /\ "placeholder_warning" \in Tags(out)

\* the text begins with the five characters y o u r -
HasYourPrefix(s) ==
    /\ Len(s) >= 5
    /\ s[1] = "y" /\ s[2] = "o" /\ s[3] = "u" /\ s[4] = "r" /\ s[5] = "-"

\* the readiness check ran and let the flow through to client construction
WasReady ==
    /\ "placeholder_warning" \notin Tags(out)
    /\ "setting_up" \in Tags(out)

\* C2 as stated: when none of org id, client id and client secret equals its
\* placeholder default value, the readiness check returns ready.
C2_Original ==
    (/\ SDK_AVAILABLE
     /\ ExampleReturned
     /\ ORG_ID # Some(S_your_org_id)
     /\ CLIENT_ID # Some(S_your_client_id)
     /\ CLIENT_SECRET # Some(S_your_client_secret)) => WasReady

\* C2 amended: when none of org id, client id and client secret starts with
\* "your-", the readiness check returns ready and the flow goes on to client
\* construction instead of printing the remediation hints.
C2_ReadyWithoutYourPrefix ==
    (/\ SDK_AVAILABLE
     /\ ExampleReturned
     /\ ~HasYourPrefix(ORG_ID[1])
     /\ ~HasYourPrefix(CLIENT_ID[1])
     /\ ~HasYourPrefix(CLIENT_SECRET[1])) => WasReady

C2_Witness ==
    /\ pc = "returned"
    /\ ORG_ID = Some(S_acme)
    /\ CLIENT_ID = Some(S_you)
    /\ CLIENT_SECRET = Some(S_acme)
    /\ WasReady

\* C3: the list-branches call has been attempted only if org id, client id
\* and client secret are each a non-empty string and none of them holds its
\* placeholder sentinel.
C3_CallOnlyWithPresentCredentials ==
    calls > 0 =>
        /\ ORG_ID[1] # <<>> /\ ORG_ID[1] # S_your_org_id
        /\ CLIENT_ID[1] # <<>> /\ CLIENT_ID[1] # S_your_client_id
        /\ CLIENT_SECRET[1] # <<>> /\ CLIENT_SECRET[1] # S_your_client_secret

\* C4: a run issues at most one list-branches call and exactly one once the
\* client was constructed and cribl_cloud_example has returned; at most one
\* call is in flight, only while the run waits at the await, and nothing has
\* been printed since the call was issued while it is in flight.
C4_ExactlyOneCall ==
    /\ calls <= 1
    /\ inflight <= 1
    /\ inflight <= calls
    /\ (inflight = 1) <=> (pc = "awaiting")
    /\ Count(out, "testing_connection") = calls
    /\ (client # None /\ ExampleReturned) => calls = 1
    /\ (inflight = 1) => out[Len(out)].tag = "testing_connection"
    /\ (error # None /\ ExampleReturned) => Len(Lines(out, ErrorTags)) = 1

C4_Witness ==
    /\ pc = "returned"
    /\ calls = 1
    /\ error # None
    /\ "status_code" \in DOMAIN error[1]
    /\ error[1].status_code = 429

\* the exception carries status code n
HasStatus(e, n) == "status_code" \in DOMAIN e /\ e.status_code = n

\* t ends with the text s
EndsWith(t, s) ==
    /\ Len(t) >= Len(s)
    /\ SubSeq(t, Len(t) - Len(s) + 1, Len(t)) = s

\* C5: once the handler has run for a caught error, exactly one of the three
\* error messages was printed and it is decided by the status code alone:
\* 401 the authentication hint, 429 the rate-limit hint, anything else
\* (no status code, 500) the "went wrong" line ending in the error's text.
C5_ClassifiedByStatusCode ==
    (error # None /\ ExampleReturned) =>
        LET e == error[1]
            reports == Lines(out, ErrorTags)
        IN /\ Len(reports) = 1
           /\ Lines(out, SuccessTags) = <<>>
           /\ HasStatus(e, 401) <=> (reports[1].tag = "auth_failed")
           /\ HasStatus(e, 429) <=> (reports[1].tag = "rate_limit")
           /\ (~HasStatus(e, 401) /\ ~HasStatus(e, 429)) <=> (reports[1].tag = "went_wrong")
           /\ (reports[1].tag = "went_wrong") =>
                  /\ EndsWith(reports[1].text, e.message)
                  /\ Len(reports[1].text) = Len(S_went_wrong) + Len(e.message)

C5_Witness ==
    /\ pc = "returned"
    /\ error # None
    /\ "status_code" \notin DOMAIN error[1]
    /\ "went_wrong" \in Tags(out)

\* position of the first "\n\t" in s, 0 when there is none
FirstSep(s) ==
    LET hits == {i \in 1..(Len(s) - 1) : s[i] = "\n" /\ s[i + 1] = "\t"}
    IN IF hits = {} THEN 0 ELSE CHOOSE i \in hits : \A j \in hits : i <= j

\* the pieces of s between the "\n\t" delimiters
RECURSIVE SplitSep(_)
SplitSep(s) ==
    LET i == FirstSep(s)
    IN IF i = 0 THEN <<s>>
       ELSE <<SubSeq(s, 1, i - 1)>> \o SplitSep(SubSeq(s, i + 2, Len(s)))

\* C6: once a response was reported: with at least one item exactly one
\* branches line was printed and, split at the newline-tab delimiter, the
\* text after its heading is the ids of items, same length and same order;
\* with no item exactly one "no branches" line was printed; in both cases no
\* error message was printed.
C6_BranchesInOrder ==
    (response # None /\ ExampleReturned) =>
        LET items == response[1].items
            lines == Lines(out, SuccessTags)
        IN /\ Len(lines) = 1
           /\ Lines(out, ErrorTags) = <<>>
           /\ error = None
           /\ IF Len(items) >= 1
              THEN /\ lines[1].tag = "branches"
                   /\ LET printed == SplitSep(SubSeq(lines[1].text,
                                                    Len(S_branches) + 1,
                                                    Len(lines[1].text)))
                      IN /\ Len(printed) = Len(items)
                         /\ \A i \in 1..Len(items) : printed[i] = items[i].id
              ELSE lines[1].tag = "no_branches"

C6_Witness ==
    /\ pc = "returned"
    /\ response # None
    /\ Len(response[1].items) = 2
    /\ response[1].items[1].id = S_main
    /\ response[1].items[2].id = S_dev
    /\ "branches" \in Tags(out)

\* C7: a failure raised by the probe call never leaves cribl_cloud_example:
\* it is caught and classified, nothing reaches the top-level handler, main
\* prints its "Next Steps" section and an uninterrupted run exits with 0.
C7_ProbeErrorsContained ==
    (error # None /\ calls = 1) =>
        /\ uncaught = None
        /\ "toplevel_error" \notin Tags(out)
        /\ pc \in {"except", "main_tail", "returned", "exited"}
        /\ pc \in {"main_tail", "returned"} => Len(Lines(out, ErrorTags)) = 1
        /\ pc = "returned" => "next_steps" \in Tags(out)
        /\ (pc = "exited" /\ ~Interrupted) =>
               /\ exitCode = Some(0)
               /\ "next_steps" \in Tags(out)
               /\ Len(Lines(out, ErrorTags)) = 1

C7_Witness ==
    /\ pc = "exited"
    /\ ~Interrupted
    /\ error # None
    /\ calls = 1
    /\ "next_steps" \in Tags(out)

\* C8: the process has an exit code exactly when it has exited, the code is 0
\* or 1, it is 1 exactly when an exception left main and reached the
\* top-level handler, and it is 0 after a user interrupt and on every path
\* that ended in an inner handler or an early return.
C8_ExitCodes ==
    /\ (exitCode # None) <=> (pc = "exited")
    /\ exitCode \in {None, Some(0), Some(1)}
    /\ (exitCode = Some(1)) <=> (pc = "exited" /\ uncaught # None)
    /\ (exitCode = Some(1)) <=> ("toplevel_error" \in Tags(out))
    /\ Interrupted => exitCode = Some(0)
    /\ (pc = "exited" /\ (error # None \/ ExampleReturned)) => exitCode = Some(0)

C8_Witness ==
    /\ pc = "exited"
    /\ exitCode = Some(1)
    /\ uncaught # None

\* a constructor raised: an exception was caught before the client existed
ConstructionFailed == error # None /\ "client_created" \notin Tags(out)

\* C9: client construction issues no network call, and after a constructor
\* raised no client exists, the probe call is never issued, construction was
\* attempted once only, and the failure is reported by exactly one message.
C9_ConstructionFailure ==
    /\ pc \in {"construct", "probe"} => calls = 0
    /\ Count(out, "setting_up") <= 1
    /\ ConstructionFailed =>
           /\ client = None
           /\ response = None
           /\ calls = 0
           /\ inflight = 0
           /\ "testing_connection" \notin Tags(out)
           /\ pc \in {"except", "main_tail", "returned", "exited"}
           /\ ExampleReturned => Len(Lines(out, ErrorTags)) = 1

C9_Witness ==
    /\ ConstructionFailed
    /\ pc = "returned"
    /\ "went_wrong" \in Tags(out)

\* C10: when the SDK import failed, no credential is resolved, the readiness
\* check does not run, no client is built and no call is issued whatever the
\* environment holds, and the import error is reported; and whenever
\* cribl_cloud_example has returned exactly one of the seven outcome messages
\* was printed, an uninterrupted run then exiting with 0.
C10_ImportFailureAndOutcomes ==
    /\ ~SDK_AVAILABLE =>
           /\ ORG_ID = None /\ CLIENT_ID = None /\ CLIENT_SECRET = None
           /\ WORKSPACE_NAME = None /\ base_url = None
           /\ client = None /\ response = None /\ error = None
           /\ calls = 0
           /\ Tags(out) \subseteq {"welcome", "environment", "testing_banner",
                                   "import_failed", "install_hint", "next_steps",
                                   "goodbye", "toplevel_error"}
           /\ ExampleReturned =>
                  /\ Count(out, "import_failed") = 1
                  /\ Lines(out, {"import_failed"})[1].text = S_import_failed \o SDK_IMPORT_ERROR[1]
    /\ ExampleReturned =>
           /\ Len(Lines(out, OutcomeTags)) = 1
           /\ uncaught = None
           /\ (pc = "exited" /\ ~Interrupted) => exitCode = Some(0)
    /\ pc \in {"main", "example", "resolve", "readiness", "construct", "probe",
               "awaiting", "report", "except"} => Len(Lines(out, OutcomeTags)) = 0

C10_Witness ==
    /\ ~SDK_AVAILABLE
    /\ pc = "exited"
    /\ ~Interrupted
    /\ "import_failed" \in Tags(out)
    /\ "CRIBL_ORG_ID" \in DOMAIN env /\ env["CRIBL_ORG_ID"] = S_acme
    /\ "CRIBL_CLIENT_ID" \in DOMAIN env /\ env["CRIBL_CLIENT_ID"] = S_acme
    /\ "CRIBL_CLIENT_SECRET" \in DOMAIN env /\ env["CRIBL_CLIENT_SECRET"] = S_acme

====
